---- MODULE Spec2Model ----
(***************************************************************************)
(* Edge gateway (src/microservices/edge-gateway/app.py): per-client        *)
(* sliding-window rate limiter, static service map, bounded request log,   *)
(* running counters, and the proxy handler that ties them together.        *)
(*                                                                         *)
(* The handlers are asyncio coroutines on one event loop: the code between *)
(* two awaits runs without interleaving.  proxy_request has two awaits     *)
(* (request.body() and client.request(...)), so one request is up to three *)
(* atomic steps: ProxyStart, BodyRead, and one of the Upstream* actions.   *)
(*                                                                         *)
(* Program state: RATE_LIMIT, service_map, now, rate_store, request_log,   *)
(* stats, handlers.                                                        *)
(* History: cg, last_admit, last_done, hist.  The properties read it; the  *)
(* actions only write it, except that hist.started and hist.probes bound   *)
(* the number of requests of a run and hist.appends numbers the log        *)
(* entries.  A handler's rid is history too: the rank of its request among *)
(* the proxy requests of the run.                                          *)
(* The clock is read in whole seconds and never goes back.                 *)
(***************************************************************************)
EXTENDS Integers, Sequences, FiniteSets, TLC

\* ---------------------------------------------------------------- bounds
\* Number of requests (proxy, /health, /status) one behaviour starts.
MaxRequests == 3
\* Last reading of the clock (time.time(), in whole seconds).
MaxTime == 3
\* Number of handlers suspended at an await at the same time.
MaxInFlight == 2
\* Number of requests one behaviour of LiveSpec starts.
MaxLiveRequests == 2

\* ------------------------------------------------- program configuration
\* RATE_LIMIT and RATE_WINDOW are read from the environment at start-up
\* (defaults 100 and 60); MAX_LOG_SIZE is 1000 in the source.  The model
\* runs the same code with small values so that the quota, the window and
\* the cap are reached within the bounds.
RateLimits == {1, 2}
RATE_WINDOW == 2
MAX_LOG_SIZE == 2

\* The dict SERVICE_MAP as written in the source, with the default addresses.
SERVICE_MAP ==
    [n \in {"sensor-ingestion", "data-processor", "device-registry", "alert-manager"} |->
        CASE n = "sensor-ingestion" -> "http://localhost:8001"
          [] n = "data-processor"   -> "http://localhost:8002"
          [] n = "device-registry"  -> "http://localhost:8003"
          [] n = "alert-manager"    -> "http://localhost:8004"]

\* Inputs of the model: callers, requested service names, methods, and the
\* status codes an upstream answers with.
Clients == {"10.0.0.1", "10.0.0.2"}
ServiceInputs == {"device-registry", "unknown-service"}
Methods == {"GET"}
UpstreamStatuses == {200, 503}

VARIABLES
    RATE_LIMIT,   \* int(os.getenv("RATE_LIMIT", "100")), fixed at start-up
    service_map,  \* the module-level dict SERVICE_MAP: service name -> base address
    now,          \* time.time()
    rate_store,   \* rate_store: client ip -> list of admission timestamps
    request_log,  \* request_log: list of entries, oldest first
    stats,        \* stats: the four counters
    handlers,     \* the proxy_request coroutines suspended at an await, oldest first
    cg,           \* history, per client: its admission checks
    last_admit,   \* history: the most recent admission check
    last_done,    \* history: the most recent request answered
    hist          \* history: counts over the whole run

vars == <<RATE_LIMIT, service_map, now, rate_store, request_log, stats, handlers, cg, last_admit, last_done, hist>>

\* ------------------------------------------------------------ rate limiter

\* Prune with the subtraction the wrong way round: nothing ever expires.
Prune_swapped(win, t) == SelectSeq(win, LAMBDA x : x - t < RATE_WINDOW)

\* Prune with `>` for `<`: the expired timestamps are the ones kept.
Prune_keeps_expired(win, t) == SelectSeq(win, LAMBDA x : t - x > RATE_WINDOW)

\* Prune with `<=` for `<`: a timestamp exactly RATE_WINDOW old is kept.
Prune_le(win, t) == SelectSeq(win, LAMBDA x : t - x <= RATE_WINDOW)

\* The list comprehension of check_rate_limit: keep t iff now - t < RATE_WINDOW.
Prune(win, t) == SelectSeq(win, LAMBDA x : t - x < RATE_WINDOW)

\* check_rate_limit with `>` for `>=`: one request too many is admitted.
check_rate_limit_gt(store, ip, t, limit) ==
    LET pruned == Prune(store[ip], t)
    IN  IF Len(pruned) > limit
        THEN [ok |-> FALSE, store |-> [store EXCEPT ![ip] = pruned]]
        ELSE [ok |-> TRUE,  store |-> [store EXCEPT ![ip] = Append(pruned, t)]]

\* check_rate_limit recording the timestamp before the limit is tested, so
\* that rejected requests are recorded too.
check_rate_limit_records_rejected(store, ip, t, limit) ==
    LET pruned == Prune(store[ip], t)
    IN  [ok |-> Len(pruned) < limit, store |-> [store EXCEPT ![ip] = Append(pruned, t)]]

\* check_rate_limit where a rejection costs the client its oldest timestamp
\* and records the time of the rejected request in its place.
check_rate_limit_rejection_extends(store, ip, t, limit) ==
    LET pruned == Prune(store[ip], t)
    IN  IF Len(pruned) >= limit
        THEN [ok |-> FALSE, store |-> [store EXCEPT ![ip] = Append(Tail(pruned), t)]]
        ELSE [ok |-> TRUE,  store |-> [store EXCEPT ![ip] = Append(pruned, t)]]

\* check_rate_limit keyed by a constant instead of client_ip: all clients
\* share one window.
check_rate_limit_shared(store, ip, t, limit) ==
    LET key    == CHOOSE c \in DOMAIN store : TRUE
        pruned == Prune(store[key], t)
    IN  IF Len(pruned) >= limit
        THEN [ok |-> FALSE, store |-> [store EXCEPT ![key] = pruned]]
        ELSE [ok |-> TRUE,  store |-> [store EXCEPT ![key] = Append(pruned, t)]]

\* check_rate_limit(client_ip) at clock reading t: the boolean it returns and
\* the rate_store it leaves.
check_rate_limit(store, ip, t, limit) ==
    LET pruned == Prune(store[ip], t)
    IN  IF Len(pruned) >= limit
        THEN [ok |-> FALSE, store |-> [store EXCEPT ![ip] = pruned]]
        ELSE [ok |-> TRUE,  store |-> [store EXCEPT ![ip] = Append(pruned, t)]]

\* ------------------------------------------------------------- request log

\* f"/api/v1/{service}/{path}" (the sub-path is not modelled)
PathOf(service) == <<"api", "v1", service>>

\* (time.time() - start) * 1000
DurationMs(start, t) == (t - start) * 1000

\* The dict log_request builds.  seq is the identity of the dict: it is the
\* seq-th entry ever appended (no code reads it).
LogEntry(method, path, ip, status_code, duration_ms, t, seq) ==
    [method |-> method, path |-> path, client_ip |-> ip,
     status_code |-> status_code, duration_ms |-> duration_ms,
     timestamp |-> t, seq |-> seq]

\* log_request without the pop: the log grows without bound.
log_request_no_pop(log, entry) == Append(log, entry)

\* log_request popping index 1 instead of index 0.
log_request_pop_second(log, entry) ==
    LET a == Append(log, entry)
    IN  IF Len(a) > MAX_LOG_SIZE THEN <<Head(a)>> \o Tail(Tail(a)) ELSE a

\* request_log.append(entry); if len(request_log) > MAX_LOG_SIZE: pop(0)
log_request(log, entry) ==
    LET a == Append(log, entry)
    IN  IF Len(a) > MAX_LOG_SIZE THEN Tail(a) ELSE a

\* ------------------------------------------------------------------- stats

IncTotal(s) == [s EXCEPT !.total_requests = @ + 1]
\* A rejection counted as a failed proxy.
IncRateLimited_as_failed(s) == [s EXCEPT !.failed_proxies = @ + 1]
IncRateLimited(s) == [s EXCEPT !.rate_limited = @ + 1]
\* The increment written as an assignment: updates are lost.
IncSuccessful_set(s) == [s EXCEPT !.successful_proxies = 1]
IncSuccessful(s) == [s EXCEPT !.successful_proxies = @ + 1]
IncFailed(s) == [s EXCEPT !.failed_proxies = @ + 1]

\* ----------------------------------------------------------------- history

NoAdmit ==
    [client_ip |-> "", service |-> "", t |-> 0, ok |-> TRUE, win_before |-> 0,
     seen |-> FALSE, prev_seen |-> FALSE, prev_t |-> 0, prev_ok |-> TRUE,
     answered |-> 0, d_rl |-> 0, spawned |-> 0]

NoDone ==
    [client_ip |-> "", service |-> "", outcome |-> "none", response |-> 0,
     available |-> {}, upstream_status |-> 0, upstream_calls |-> 0,
     logged |-> <<>>, durations |-> <<>>, d_succ |-> 0, d_fail |-> 0]

\* The entries of log2 appended after the k-th append: their status codes
\* and their durations, oldest first.
NewEntries(log2, k) == SelectSeq(log2, LAMBDA e : e.seq > k)
Logged(log2, k) == [i \in 1..Len(NewEntries(log2, k)) |-> NewEntries(log2, k)[i].status_code]
Durations(log2, k) == [i \in 1..Len(NewEntries(log2, k)) |-> NewEntries(log2, k)[i].duration_ms]

\* The admission check of client ip at time t, answered ok, against the
\* window `pruned`: n and a count the checks and the admissions since the
\* check at t0 that found the client's window empty.  admitted lists the
\* times of the client's admissions less than RATE_WINDOW before t, the
\* time of its latest check.
NoteCheck(g, t, pruned, ok) ==
    LET recent == SelectSeq(g.admitted, LAMBDA x : x > t - RATE_WINDOW)
        adm    == IF ok THEN Append(recent, t) ELSE recent
    IN  IF Len(pruned) = 0
        THEN [n |-> 1, a |-> IF ok THEN 1 ELSE 0, t0 |-> t, last_t |-> t,
              last_ok |-> ok, admitted |-> adm]
        ELSE [n |-> g.n + 1, a |-> g.a + (IF ok THEN 1 ELSE 0), t0 |-> g.t0,
              last_t |-> t, last_ok |-> ok, admitted |-> adm]

\* ----------------------------------------------------------------- initial

Init ==
    /\ RATE_LIMIT \in RateLimits
    /\ service_map = SERVICE_MAP
    /\ now = 0
    /\ rate_store = [c \in Clients |-> <<>>]
    /\ request_log = <<>>
    /\ stats = [total_requests |-> 0, successful_proxies |-> 0,
                failed_proxies |-> 0, rate_limited |-> 0]
    /\ handlers = <<>>
    /\ cg = [c \in Clients |-> [n |-> 0, a |-> 0, t0 |-> 0, last_t |-> 0,
                                 last_ok |-> TRUE, admitted |-> <<>>]]
    /\ last_admit = NoAdmit
    /\ last_done = NoDone
    /\ hist = [started |-> 0, probes |-> 0, appends |-> 0, all_proxied |-> TRUE,
               raced |-> FALSE]

\* Remove the i-th element of a sequence.
Remove(s, i) == SubSeq(s, 1, i - 1) \o SubSeq(s, i + 1, Len(s))

\* The clock advances.
Tick ==
    /\ now < MaxTime
    /\ now' = now + 1
    /\ UNCHANGED <<RATE_LIMIT, service_map, rate_store, request_log, stats, handlers, cg,
                   last_admit, last_done, hist>>

\* GET /health (lines 68-70): a constant answer; nothing is read or written.
Health ==
    /\ hist.started + hist.probes < MaxRequests
    /\ hist' = [hist EXCEPT !.probes = @ + 1]
    /\ UNCHANGED <<RATE_LIMIT, service_map, now, rate_store, request_log, stats,
                   handlers, cg, last_admit, last_done>>

\* /status counted as a proxy request.
Status_counted ==
    /\ hist.started + hist.probes < MaxRequests
    /\ stats' = IncTotal(stats)
    /\ hist' = [hist EXCEPT !.probes = @ + 1]
    /\ UNCHANGED <<RATE_LIMIT, service_map, now, rate_store, request_log,
                   handlers, cg, last_admit, last_done>>

\* GET /status (lines 73-87): the answer is built from SERVICE_MAP, stats,
\* RATE_LIMIT, RATE_WINDOW and len(request_log), all of them only read.
Status ==
    /\ hist.started + hist.probes < MaxRequests
    /\ hist' = [hist EXCEPT !.probes = @ + 1]
    /\ UNCHANGED <<RATE_LIMIT, service_map, now, rate_store, request_log, stats,
                   handlers, cg, last_admit, last_done>>

\* The message listing the addresses instead of the names.
Available_values(map) == {map[n] : n \in DOMAIN map}

\* The names the 404 message lists: list(SERVICE_MAP.keys()), as a set.
Available(map) == DOMAIN map

\* proxy_request testing the service name before the answer of the rate
\* limiter: an exhausted client asking for an unknown service is answered 404.
ProxyStart_registry_first(ip, service, method) ==
    /\ hist.started + hist.probes < MaxRequests
    /\ LET s1     == IncTotal(stats)
           rl     == check_rate_limit(rate_store, ip, now, RATE_LIMIT)
           pruned == Prune(rate_store[ip], now)
           e429   == LogEntry(method, PathOf(service), ip, 429, 0, now, hist.appends + 1)
           e404   == LogEntry(method, PathOf(service), ip, 404, 0, now, hist.appends + 1)
           short  == [NoDone EXCEPT !.client_ip = ip, !.service = service,
                                    !.logged = Logged(request_log', hist.appends),
                                    !.durations = Durations(request_log', hist.appends),
                                    !.d_succ = stats'.successful_proxies - stats.successful_proxies,
                                    !.d_fail = stats'.failed_proxies - stats.failed_proxies]
           adm    == [client_ip |-> ip, service |-> service, t |-> now, ok |-> rl.ok,
                      win_before |-> Len(pruned), seen |-> TRUE,
                      prev_seen |-> cg[ip].n > 0,
                      prev_t |-> cg[ip].last_t, prev_ok |-> cg[ip].last_ok,
                      answered |-> 0,
                      d_rl |-> stats'.rate_limited - stats.rate_limited,
                      spawned |-> Len(handlers') - Len(handlers)]
       IN  /\ rate_store' = rl.store
           /\ cg' = [cg EXCEPT ![ip] = NoteCheck(@, now, pruned, rl.ok)]
           /\ IF service \notin DOMAIN service_map
              THEN
                   /\ stats' = s1
                   /\ request_log' = log_request(request_log, e404)
                   /\ handlers' = handlers
                   /\ last_admit' = [adm EXCEPT !.answered = 404]
                   /\ last_done' = [short EXCEPT !.outcome = "not_found",
                                                 !.response = 404,
                                                 !.available = Available(service_map)]
                   /\ hist' = [hist EXCEPT !.started = @ + 1, !.appends = @ + 1,
                                           !.all_proxied = FALSE]
              ELSE IF ~rl.ok
              THEN
                   /\ stats' = IncRateLimited(s1)
                   /\ request_log' = log_request(request_log, e429)
                   /\ handlers' = handlers
                   /\ last_admit' = [adm EXCEPT !.answered = 429]
                   /\ last_done' = [short EXCEPT !.outcome = "rate_limited",
                                                 !.response = 429]
                   /\ hist' = [hist EXCEPT !.started = @ + 1, !.appends = @ + 1,
                                           !.all_proxied = FALSE]
              ELSE \* line 108, then suspended at `await request.body()`
                   /\ Len(handlers) < MaxInFlight
                   /\ stats' = s1
                   /\ request_log' = request_log
                   /\ handlers' = Append(handlers,
                          [client_ip |-> ip, service |-> service, method |-> method,
                           target_url |-> service_map[service],
                           start |-> now, pc |-> "body", request_id |-> 0,
                           calls |-> 0, rid |-> hist.started + 1])
                   /\ last_admit' = adm
                   /\ last_done' = last_done
                   /\ hist' = [hist EXCEPT !.started = @ + 1,
                                           !.raced = @ \/ Len(handlers) > 0]
    /\ UNCHANGED <<RATE_LIMIT, service_map, now>>

\* proxy_request giving the quota back on a 404: the timestamp of a request
\* for an unknown service is not kept in the window.
ProxyStart_404_refunds(ip, service, method) ==
    /\ hist.started + hist.probes < MaxRequests
    /\ LET s1     == IncTotal(stats)
           rl     == check_rate_limit(rate_store, ip, now, RATE_LIMIT)
           pruned == Prune(rate_store[ip], now)
           e429   == LogEntry(method, PathOf(service), ip, 429, 0, now, hist.appends + 1)
           e404   == LogEntry(method, PathOf(service), ip, 404, 0, now, hist.appends + 1)
           short  == [NoDone EXCEPT !.client_ip = ip, !.service = service,
                                    !.logged = Logged(request_log', hist.appends),
                                    !.durations = Durations(request_log', hist.appends),
                                    !.d_succ = stats'.successful_proxies - stats.successful_proxies,
                                    !.d_fail = stats'.failed_proxies - stats.failed_proxies]
           adm    == [client_ip |-> ip, service |-> service, t |-> now, ok |-> rl.ok,
                      win_before |-> Len(pruned), seen |-> TRUE,
                      prev_seen |-> cg[ip].n > 0,
                      prev_t |-> cg[ip].last_t, prev_ok |-> cg[ip].last_ok,
                      answered |-> 0,
                      d_rl |-> stats'.rate_limited - stats.rate_limited,
                      spawned |-> Len(handlers') - Len(handlers)]
       IN  /\ rate_store' = IF rl.ok /\ service \notin DOMAIN service_map
                          THEN [rate_store EXCEPT ![ip] = pruned]
                          ELSE rl.store
           /\ cg' = [cg EXCEPT ![ip] = NoteCheck(@, now, pruned, rl.ok)]
           /\ IF ~rl.ok
              THEN \* lines 99-101
                   /\ stats' = IncRateLimited(s1)
                   /\ request_log' = log_request(request_log, e429)
                   /\ handlers' = handlers
                   /\ last_admit' = [adm EXCEPT !.answered = 429]
                   /\ last_done' = [short EXCEPT !.outcome = "rate_limited",
                                                 !.response = 429]
                   /\ hist' = [hist EXCEPT !.started = @ + 1, !.appends = @ + 1,
                                           !.all_proxied = FALSE]
              ELSE IF service \notin DOMAIN service_map
              THEN \* lines 105-106
                   /\ stats' = s1
                   /\ request_log' = log_request(request_log, e404)
                   /\ handlers' = handlers
                   /\ last_admit' = [adm EXCEPT !.answered = 404]
                   /\ last_done' = [short EXCEPT !.outcome = "not_found",
                                                 !.response = 404,
                                                 !.available = Available(service_map)]
                   /\ hist' = [hist EXCEPT !.started = @ + 1, !.appends = @ + 1,
                                           !.all_proxied = FALSE]
              ELSE \* line 108, then suspended at `await request.body()`
                   /\ Len(handlers) < MaxInFlight
                   /\ stats' = s1
                   /\ request_log' = request_log
                   /\ handlers' = Append(handlers,
                          [client_ip |-> ip, service |-> service, method |-> method,
                           target_url |-> service_map[service],
                           start |-> now, pc |-> "body", request_id |-> 0,
                           calls |-> 0, rid |-> hist.started + 1])
                   /\ last_admit' = adm
                   /\ last_done' = last_done
                   /\ hist' = [hist EXCEPT !.started = @ + 1,
                                           !.raced = @ \/ Len(handlers) > 0]
    /\ UNCHANGED <<RATE_LIMIT, service_map, now>>

\* proxy_request, lines 93-108: up to the first await.
ProxyStart(ip, service, method) ==
    /\ hist.started + hist.probes < MaxRequests
    /\ LET s1     == IncTotal(stats)
           rl     == check_rate_limit(rate_store, ip, now, RATE_LIMIT)
           pruned == Prune(rate_store[ip], now)
           e429   == LogEntry(method, PathOf(service), ip, 429, 0, now, hist.appends + 1)
           e404   == LogEntry(method, PathOf(service), ip, 404, 0, now, hist.appends + 1)
           short  == [NoDone EXCEPT !.client_ip = ip, !.service = service,
                                    !.logged = Logged(request_log', hist.appends),
                                    !.durations = Durations(request_log', hist.appends),
                                    !.d_succ = stats'.successful_proxies - stats.successful_proxies,
                                    !.d_fail = stats'.failed_proxies - stats.failed_proxies]
           adm    == [client_ip |-> ip, service |-> service, t |-> now, ok |-> rl.ok,
                      win_before |-> Len(pruned), seen |-> TRUE,
                      prev_seen |-> cg[ip].n > 0,
                      prev_t |-> cg[ip].last_t, prev_ok |-> cg[ip].last_ok,
                      answered |-> 0,
                      d_rl |-> stats'.rate_limited - stats.rate_limited,
                      spawned |-> Len(handlers') - Len(handlers)]
       IN  /\ rate_store' = rl.store
           /\ cg' = [cg EXCEPT ![ip] = NoteCheck(@, now, pruned, rl.ok)]
           /\ IF ~rl.ok
              THEN \* lines 99-101
                   /\ stats' = IncRateLimited(s1)
                   /\ request_log' = log_request(request_log, e429)
                   /\ handlers' = handlers
                   /\ last_admit' = [adm EXCEPT !.answered = 429]
                   /\ last_done' = [short EXCEPT !.outcome = "rate_limited",
                                                 !.response = 429]
                   /\ hist' = [hist EXCEPT !.started = @ + 1, !.appends = @ + 1,
                                           !.all_proxied = FALSE]
              ELSE IF service \notin DOMAIN service_map
              THEN \* lines 105-106
                   /\ stats' = s1
                   /\ request_log' = log_request(request_log, e404)
                   /\ handlers' = handlers
                   /\ last_admit' = [adm EXCEPT !.answered = 404]
                   /\ last_done' = [short EXCEPT !.outcome = "not_found",
                                                 !.response = 404,
                                                 !.available = Available(service_map)]
                   /\ hist' = [hist EXCEPT !.started = @ + 1, !.appends = @ + 1,
                                           !.all_proxied = FALSE]
              ELSE \* line 108, then suspended at `await request.body()`
                   /\ Len(handlers) < MaxInFlight
                   /\ stats' = s1
                   /\ request_log' = request_log
                   /\ handlers' = Append(handlers,
                          [client_ip |-> ip, service |-> service, method |-> method,
                           target_url |-> service_map[service],
                           start |-> now, pc |-> "body", request_id |-> 0,
                           calls |-> 0, rid |-> hist.started + 1])
                   /\ last_admit' = adm
                   /\ last_done' = last_done
                   /\ hist' = [hist EXCEPT !.started = @ + 1,
                                           !.raced = @ \/ Len(handlers) > 0]
    /\ UNCHANGED <<RATE_LIMIT, service_map, now>>

\* The except branches of proxy_request (lines 135-144): count the failure,
\* log it with the elapsed duration, answer with `code`.
Fail(i, code, outcome) ==
    LET h == handlers[i]
        d == DurationMs(h.start, now)
        e == LogEntry(h.method, PathOf(h.service), h.client_ip, code, d, now,
                      hist.appends + 1)
    IN  /\ stats' = IncFailed(stats)
        /\ request_log' = log_request(request_log, e)
        /\ handlers' = Remove(handlers, i)
        /\ last_done' = [NoDone EXCEPT !.client_ip = h.client_ip,
                            !.service = h.service, !.outcome = outcome,
                            !.response = code, !.upstream_calls = h.calls,
                            !.logged = Logged(request_log', hist.appends),
                            !.durations = Durations(request_log', hist.appends),
                            !.d_succ = stats'.successful_proxies - stats.successful_proxies,
                            !.d_fail = stats'.failed_proxies - stats.failed_proxies]
        /\ hist' = [hist EXCEPT !.appends = @ + 1, !.all_proxied = FALSE]

\* The handlers served one at a time: only the oldest one is resumed.
BodyRead_oldest_only(i, ok) ==
    /\ i = 1
    /\ i \in 1..Len(handlers)
    /\ handlers[i].pc = "body"
    /\ IF ok
       THEN /\ handlers' = [handlers EXCEPT ![i] =
                              [@ EXCEPT !.pc = "upstream",
                                        !.request_id = now * 1000,
                                        !.calls = @ + 1]]
            /\ UNCHANGED <<request_log, stats, last_done, hist>>
       ELSE Fail(i, 500, "body_error")
    /\ UNCHANGED <<RATE_LIMIT, service_map, now, rate_store, cg, last_admit>>

\* await request.body() returns (line 111), the headers are built with the
\* trace id "gw-" + int(time.time() * 1000) (lines 112-116) and
\* client.request(...) is issued (lines 118-125): the upstream call of the
\* request.  Or the await raises (the client went away while the body was
\* read), which `except Exception` turns into 500.
BodyRead(i, ok) ==
    /\ i \in 1..Len(handlers)
    /\ handlers[i].pc = "body"
    /\ IF ok
       THEN /\ handlers' = [handlers EXCEPT ![i] =
                              [@ EXCEPT !.pc = "upstream",
                                        !.request_id = now * 1000,
                                        !.calls = @ + 1]]
            /\ UNCHANGED <<request_log, stats, last_done, hist>>
       ELSE Fail(i, 500, "body_error")
    /\ UNCHANGED <<RATE_LIMIT, service_map, now, rate_store, cg, last_admit>>

\* `except Exception` placed before `except httpx.ConnectError`: a connection
\* failure is answered 500.
UpstreamConnectError_as_other(i) ==
    /\ i \in 1..Len(handlers)
    /\ handlers[i].pc = "upstream"
    /\ Fail(i, 500, "connect_error")
    /\ UNCHANGED <<RATE_LIMIT, service_map, now, rate_store, cg, last_admit>>

\* await client.request(...) raises httpx.ConnectError (lines 135-139).
UpstreamConnectError(i) ==
    /\ i \in 1..Len(handlers)
    /\ handlers[i].pc = "upstream"
    /\ Fail(i, 502, "connect_error")
    /\ UNCHANGED <<RATE_LIMIT, service_map, now, rate_store, cg, last_admit>>

\* A timeout retried once: the call is issued again and the handler stays
\* suspended.
UpstreamOtherError_retry(i) ==
    /\ i \in 1..Len(handlers)
    /\ handlers[i].pc = "upstream"
    /\ IF handlers[i].calls < 2
       THEN /\ handlers' = [handlers EXCEPT ![i] = [@ EXCEPT !.calls = @ + 1]]
            /\ UNCHANGED <<request_log, stats, last_done, hist>>
       ELSE Fail(i, 500, "other_error")
    /\ UNCHANGED <<RATE_LIMIT, service_map, now, rate_store, cg, last_admit>>

\* await client.request(...) raises anything else, e.g. a timeout
\* (lines 140-144).
UpstreamOtherError(i) ==
    /\ i \in 1..Len(handlers)
    /\ handlers[i].pc = "upstream"
    /\ Fail(i, 500, "other_error")
    /\ UNCHANGED <<RATE_LIMIT, service_map, now, rate_store, cg, last_admit>>

\* await client.request(...) returns a response with status `code`
\* (lines 127-134).  The success is counted and logged first; response.json()
\* runs afterwards, inside the same try, and raises on a body that is not
\* JSON, which lands in `except Exception` (lines 140-144).
UpstreamResponse(i, code, json_ok) ==
    /\ i \in 1..Len(handlers)
    /\ handlers[i].pc = "upstream"
    /\ LET h  == handlers[i]
           d  == DurationMs(h.start, now)
           e1 == LogEntry(h.method, PathOf(h.service), h.client_ip, code, d, now,
                          hist.appends + 1)
           e2 == LogEntry(h.method, PathOf(h.service), h.client_ip, 500, d, now,
                          hist.appends + 2)
           s1 == IncSuccessful(stats)
           l1 == log_request(request_log, e1)
           dn == [NoDone EXCEPT !.client_ip = h.client_ip, !.service = h.service,
                                !.upstream_status = code, !.upstream_calls = h.calls,
                                !.logged = Logged(request_log', hist.appends),
                                !.durations = Durations(request_log', hist.appends),
                                !.d_succ = stats'.successful_proxies - stats.successful_proxies,
                                !.d_fail = stats'.failed_proxies - stats.failed_proxies]
       IN  IF json_ok
           THEN /\ stats' = s1
                /\ request_log' = l1
                /\ last_done' = [dn EXCEPT !.outcome = "proxied", !.response = code]
                /\ hist' = [hist EXCEPT !.appends = @ + 1]
           ELSE /\ stats' = IncFailed(s1)
                /\ request_log' = log_request(l1, e2)
                /\ last_done' = [dn EXCEPT !.outcome = "malformed", !.response = 500]
                /\ hist' = [hist EXCEPT !.appends = @ + 2, !.all_proxied = FALSE]
    /\ handlers' = Remove(handlers, i)
    /\ UNCHANGED <<RATE_LIMIT, service_map, now, rate_store, cg, last_admit>>

Next ==
    \/ Tick
    \/ Health
    \/ Status
    \/ \E ip \in Clients, s \in ServiceInputs, m \in Methods : ProxyStart(ip, s, m)
    \/ \E i \in 1..MaxInFlight, ok \in BOOLEAN : BodyRead(i, ok)
    \/ \E i \in 1..MaxInFlight : UpstreamConnectError(i)
    \/ \E i \in 1..MaxInFlight : UpstreamOtherError(i)
    \/ \E i \in 1..MaxInFlight, code \in UpstreamStatuses, j \in BOOLEAN :
          UpstreamResponse(i, code, j)

Spec == Init /\ [][Next]_vars

\* The steps of the i-th suspended handler: its body read ends, its upstream
\* call ends.
BodyStep(i) == \E ok \in BOOLEAN : BodyRead(i, ok)
UpstreamStep(i) ==
    \/ UpstreamConnectError(i)
    \/ UpstreamOtherError(i)
    \/ \E code \in UpstreamStatuses, j \in BOOLEAN : UpstreamResponse(i, code, j)

\* Next for runs of at most MaxLiveRequests requests.
NextLive ==
    \/ Tick
    \/ hist.started + hist.probes < MaxLiveRequests /\ Health
    \/ hist.started + hist.probes < MaxLiveRequests /\ Status
    \/ /\ hist.started + hist.probes < MaxLiveRequests
       /\ \E ip \in Clients, s \in ServiceInputs, m \in Methods : ProxyStart(ip, s, m)
    \/ \E i \in 1..MaxInFlight : BodyStep(i)
    \/ \E i \in 1..MaxInFlight : UpstreamStep(i)

\* The event loop resumes a coroutine once what it awaits is done.  The body
\* of a request arrives or its client goes away; the upstream call returns,
\* fails, or is cut by the 10 s timeout of the httpx client (line 118).
Fairness ==
    \A i \in 1..MaxInFlight : WF_vars(BodyStep(i)) /\ WF_vars(UpstreamStep(i))

LiveSpec == Init /\ [][NextLive]_vars /\ Fairness

\* ================================================================ claims

Min(a, b) == IF a < b THEN a ELSE b

\* The checks of client c since its window was last found empty all fall
\* within one window of the first of them.
InOneWindow(c) == cg[c].n >= 1 /\ cg[c].last_t - cg[c].t0 < RATE_WINDOW

\* C1: starting from an empty window, the first RATE_LIMIT requests of a
\* client within RATE_WINDOW seconds are all admitted (not answered 429,
\* rate_limited unchanged), and request RATE_LIMIT + 1 within the same
\* window is rejected with 429.
C1_FirstLimitAdmittedNextRejected ==
    /\ \A c \in Clients :
          InOneWindow(c) =>
             /\ cg[c].n <= RATE_LIMIT => cg[c].last_ok /\ cg[c].a = cg[c].n
             /\ cg[c].n = RATE_LIMIT + 1 => ~cg[c].last_ok /\ cg[c].a = RATE_LIMIT
    /\ last_admit.seen =>
          /\ last_admit.ok => last_admit.answered # 429 /\ last_admit.d_rl = 0
          /\ ~last_admit.ok => last_admit.answered = 429

\* The 200, 200, 429 run with RATE_LIMIT = 2: two requests proxied, the
\* third of the same client, in the same window, just answered 429.
C1_Witness ==
    /\ RATE_LIMIT = 2
    /\ stats.successful_proxies = 2 /\ stats.failed_proxies = 0
    /\ stats.rate_limited = 1
    /\ \E c \in Clients : InOneWindow(c) /\ cg[c].n = 3 /\ ~cg[c].last_ok
    /\ last_admit.answered = 429 /\ last_done.response = 429

\* C2: whenever no proxy request is in flight,
\* total_requests = successful_proxies + failed_proxies + rate_limited.
C2_CountersAddUp ==
    Len(handlers) = 0 =>
        stats.total_requests =
            stats.successful_proxies + stats.failed_proxies + stats.rate_limited

\* C3: a request that reached the upstream call increments exactly one of
\* successful_proxies and failed_proxies, by one: a completed round trip only
\* successful_proxies, a failure (connection, timeout, malformed response)
\* only failed_proxies.
C3_ExactlyOneProxyCounter ==
    last_done.upstream_calls >= 1 =>
        /\ last_done.d_succ + last_done.d_fail = 1
        /\ last_done.outcome = "proxied" => last_done.d_succ = 1
        /\ last_done.outcome \in {"connect_error", "other_error", "malformed"} =>
              last_done.d_fail = 1

\* C4: every answered proxy request has appended exactly one entry to the
\* request log, and that entry's status code is the status answered.
C4_OneLogEntryWithAnsweredStatus ==
    last_done.outcome # "none" =>
        /\ Len(last_done.logged) = 1
        /\ last_done.logged[1] = last_done.response

\* C5: every proxy request is answered with the status of its outcome class:
\* rate limited 429, admitted but unknown service 404, connection failure
\* 502, any other failure inside the try block (body read, timeout, malformed
\* response) 500, otherwise the upstream's own status.
C5_StatusByOutcome ==
    /\ last_done.outcome = "rate_limited" => last_done.response = 429
    /\ last_done.outcome = "not_found" =>
          last_done.response = 404 /\ last_done.service \notin DOMAIN SERVICE_MAP
    /\ last_done.outcome = "connect_error" => last_done.response = 502
    /\ last_done.outcome \in {"body_error", "other_error", "malformed"} =>
          last_done.response = 500
    /\ last_done.outcome = "proxied" =>
          /\ last_done.response = last_done.upstream_status
          /\ last_done.response \in UpstreamStatuses
    /\ last_done.outcome # "none" =>
          last_done.response \in {429, 404, 502, 500} \cup UpstreamStatuses
    /\ last_admit.seen /\ ~last_admit.ok => last_admit.answered = 429
    /\ last_admit.answered = 404 => last_admit.ok

\* A connection failure has just been answered 502.
C5_Witness ==
    /\ last_done.outcome = "connect_error"
    /\ last_done.response = 502
    /\ stats.failed_proxies >= 1

\* C6: a client whose last request was rejected and that then sends nothing
\* for more than RATE_WINDOW seconds has its next request admitted.
C6_AdmittedAfterWindow ==
    ( /\ last_admit.seen
      /\ last_admit.prev_seen
      /\ ~last_admit.prev_ok
      /\ last_admit.t - last_admit.prev_t > RATE_WINDOW )
    => last_admit.ok /\ last_admit.answered # 429

\* A client rejected, silent for more than the window, admitted again.
C6_Witness ==
    /\ last_admit.seen /\ last_admit.prev_seen /\ ~last_admit.prev_ok
    /\ last_admit.t - last_admit.prev_t > RATE_WINDOW
    /\ last_admit.ok
    /\ stats.rate_limited = 1

\* C7: the request log never holds more than MAX_LOG_SIZE entries, in any
\* interleaving of the handlers; an append that exceeds the cap removes one
\* entry only, the oldest: the log is always the run of the most recently
\* appended entries, none missing in between.
C7_LogBounded ==
    /\ Len(request_log) <= MAX_LOG_SIZE
    /\ Len(request_log) = Min(hist.appends, MAX_LOG_SIZE)
    /\ \A i \in 1..Len(request_log) :
          request_log[i].seq = hist.appends - Len(request_log) + i

\* The cap was exceeded while another handler was suspended.
C7_Witness ==
    /\ hist.appends > MAX_LOG_SIZE
    /\ Len(request_log) = MAX_LOG_SIZE
    /\ Len(handlers) > 0

\* C8: after MAX_LOG_SIZE + k appends (k >= 1) the log holds exactly the
\* last MAX_LOG_SIZE entries appended, in the order they were appended.
C8_LogKeepsMostRecent ==
    hist.appends > MAX_LOG_SIZE =>
        /\ Len(request_log) = MAX_LOG_SIZE
        /\ \A i \in 1..Len(request_log) :
              request_log[i].seq = hist.appends - MAX_LOG_SIZE + i

\* MAX_LOG_SIZE + 2 appends.
C8_Witness ==
    /\ hist.appends = MAX_LOG_SIZE + 2
    /\ Len(request_log) = MAX_LOG_SIZE
    /\ request_log[1].seq = 3

\* C9: from zeroed stats, N concurrent proxy requests that all complete a
\* successful round trip leave successful_proxies = N, total_requests = N
\* and failed_proxies = 0.
C9_NoLostUpdate ==
    (Len(handlers) = 0 /\ hist.all_proxied) =>
        /\ stats.successful_proxies = hist.started
        /\ stats.total_requests = hist.started
        /\ stats.failed_proxies = 0

\* Three requests, overlapping, all proxied.
C9_Witness ==
    /\ Len(handlers) = 0 /\ hist.all_proxied /\ hist.raced
    /\ hist.started = 3
    /\ stats.successful_proxies = 3

\* C10: N requests of one client racing through the rate limiter within one
\* window, from an empty window: exactly min(N, RATE_LIMIT) are admitted and
\* the client's window ends with min(N, RATE_LIMIT) timestamps.
C10_RacingAdmissions ==
    \A c \in Clients :
        InOneWindow(c) =>
            /\ cg[c].a = Min(cg[c].n, RATE_LIMIT)
            /\ Len(rate_store[c]) = Min(cg[c].n, RATE_LIMIT)

\* Two handlers of one client suspended, a third request of that client
\* checked while they are.
C10_Witness ==
    \E c \in Clients :
        /\ InOneWindow(c) /\ cg[c].n = 3 /\ RATE_LIMIT = 2
        /\ Len(handlers) = 2
        /\ \A i \in 1..2 : handlers[i].client_ip = c
        /\ Len(rate_store[c]) = 2

\* C11: a request rejected by the rate limiter is answered 429, increments
\* rate_limited by exactly 1, appends one log entry with status 429 and
\* duration 0, starts no handler (no service resolution, no upstream call)
\* and leaves successful_proxies and failed_proxies unchanged.
C11_RejectedIsShortCircuit ==
    /\ (last_admit.seen /\ ~last_admit.ok) =>
          /\ last_admit.answered = 429
          /\ last_admit.d_rl = 1
          /\ last_admit.spawned = 0
    /\ last_done.outcome = "rate_limited" =>
          /\ last_done.response = 429
          /\ last_done.logged = <<429>>
          /\ last_done.durations = <<0>>
          /\ last_done.upstream_calls = 0
          /\ last_done.available = {}
          /\ last_done.d_succ = 0 /\ last_done.d_fail = 0

\* A request for a configured service has just been rejected while another
\* request is in flight.
C11_Witness ==
    /\ last_admit.seen /\ ~last_admit.ok
    /\ last_admit.service \in DOMAIN SERVICE_MAP
    /\ last_done.outcome = "rate_limited" /\ last_done.client_ip = last_admit.client_ip
    /\ stats.rate_limited = 1
    /\ Len(handlers) = 1

\* C12: only requests that reach the upstream network call change
\* successful_proxies or failed_proxies.  An admitted request for an unknown
\* service is answered 404, logs 404 with duration 0 and leaves
\* successful_proxies, failed_proxies and rate_limited unchanged; any request
\* answered before its upstream call leaves both proxy counters unchanged.
C12_OnlyUpstreamCallsCount ==
    /\ last_done.outcome = "not_found" =>
          /\ last_done.response = 404
          /\ last_done.logged = <<404>>
          /\ last_done.durations = <<0>>
          /\ last_done.d_succ = 0 /\ last_done.d_fail = 0
    /\ last_admit.answered = 404 => last_admit.d_rl = 0
    /\ (last_done.outcome # "none" /\ last_done.upstream_calls = 0) =>
          last_done.d_succ = 0 /\ last_done.d_fail = 0

\* C13: at every point of a run, an admitted request for a name outside the
\* configured set is answered 404 (ServiceNotFound) and resolves nothing, the
\* 404 message lists exactly the configured names, every handler in flight
\* holds the configured address of a configured name, and the name-to-address
\* map is the one configured at start-up.
C13_UnknownServiceAlways404 ==
    /\ service_map = SERVICE_MAP
    /\ (last_admit.seen /\ last_admit.ok
            /\ last_admit.service \notin DOMAIN SERVICE_MAP) =>
          last_admit.answered = 404 /\ last_admit.spawned = 0
    /\ last_admit.answered = 404 => last_admit.service \notin DOMAIN SERVICE_MAP
    /\ last_done.outcome = "not_found" =>
          /\ last_done.response = 404
          /\ last_done.service \notin DOMAIN SERVICE_MAP
          /\ last_done.available = DOMAIN SERVICE_MAP
    /\ \A i \in 1..Len(handlers) :
          /\ handlers[i].service \in DOMAIN SERVICE_MAP
          /\ handlers[i].target_url = SERVICE_MAP[handlers[i].service]

\* The third request of a run, after one proxied and one rate limited, asks
\* for an unknown service and is answered 404.
C13_Witness ==
    /\ last_done.outcome = "not_found" /\ last_done.response = 404
    /\ last_admit.answered = 404
    /\ stats.total_requests = 3
    /\ stats.successful_proxies = 1 /\ stats.rate_limited = 1
    /\ now > 0

\* C14: total_requests is always the number of proxy requests that have
\* entered proxy_request, whatever their outcome; a request to /health or
\* /status changes no counter, no rate window and no log entry (and starts
\* no handler).
C14_TotalCountsProxyRequestsOnly ==
    /\ [](stats.total_requests = hist.started)
    /\ [][hist'.probes # hist.probes =>
            UNCHANGED <<stats, rate_store, request_log, handlers>>]_vars

\* A /health or /status request served in a run whose two proxy requests
\* were answered 404 and 429.
C14_Witness ==
    /\ hist.probes = 1 /\ hist.started = 2
    /\ stats.total_requests = 2
    /\ stats.rate_limited = 1
    /\ stats.successful_proxies = 0 /\ stats.failed_proxies = 0
    /\ Len(handlers) = 0
    /\ Len(request_log) = 2
    /\ request_log[1].status_code = 404 /\ request_log[2].status_code = 429

\* C15: whenever the upstream returned a response, whatever its status, the
\* request is answered with that status, logs that status (one entry), and
\* is counted in successful_proxies and not in failed_proxies.
C15_UpstreamStatusRelayed ==
    last_done.upstream_status # 0 =>
        /\ last_done.response = last_done.upstream_status
        /\ last_done.logged = <<last_done.upstream_status>>
        /\ last_done.d_succ = 1
        /\ last_done.d_fail = 0

\* C16: any two requests being forwarded carry different trace identifiers,
\* also when their headers were built at the same clock reading.
C16_TraceIdsDiffer ==
    \A i, j \in 1..Len(handlers) :
        (i # j /\ handlers[i].pc = "upstream" /\ handlers[j].pc = "upstream") =>
            handlers[i].request_id # handlers[j].request_id

\* C17: each proxy request makes at most one upstream call.  A call that
\* times out is answered 500, logged 500 and counted in failed_proxies, once;
\* a handler that has issued its call issues no other: in every step it is
\* left as it is or a handler finishes.
C17_OneUpstreamCallNoRetry ==
    /\ [](/\ \A i \in 1..Len(handlers) :
               handlers[i].calls = IF handlers[i].pc = "upstream" THEN 1 ELSE 0
          /\ last_done.upstream_calls <= 1
          /\ last_done.outcome \in {"connect_error", "other_error"} =>
                /\ last_done.upstream_calls = 1
                /\ last_done.d_fail = 1 /\ last_done.d_succ = 0
          /\ last_done.outcome = "other_error" =>
                last_done.response = 500 /\ last_done.logged = <<500>>)
    /\ [][\A i \in 1..Len(handlers) :
            handlers[i].calls = 1 =>
                \/ i <= Len(handlers') /\ handlers'[i] = handlers[i]
                \/ Len(handlers') = Len(handlers) - 1]_vars

\* The only request of a run timed out: it was answered 500 after one call
\* and nothing is left in flight.
C17_Witness ==
    /\ last_done.outcome = "other_error" /\ last_done.response = 500
    /\ last_done.upstream_calls = 1
    /\ stats.total_requests = 1 /\ stats.failed_proxies = 1
    /\ Len(handlers) = 0
    /\ Len(request_log) = 1 /\ request_log[1].duration_ms > 0

\* The timestamps a sequence holds.
Stamps(win) == {win[k] : k \in 1..Len(win)}

\* C18: an admission check at time now discards from the client's window
\* exactly the timestamps t < now - RATE_WINDOW and retains every other one:
\* a timestamp exactly RATE_WINDOW old is still in the window afterwards.
C18_DiscardsOnlyOlderThanWindow ==
    [][hist'.started = hist.started + 1 =>
          LET ip == last_admit'.client_ip
          IN  \A t \in Stamps(rate_store[ip]) :
                  (t < now - RATE_WINDOW) <=> (t \notin Stamps(rate_store'[ip]))]_vars

\* C18, amended: an admission check at time now discards from the client's
\* window exactly the timestamps t <= now - RATE_WINDOW and retains every
\* other one, in order; a timestamp exactly RATE_WINDOW old is discarded and
\* no longer counts against the limit: the request is admitted iff fewer
\* than RATE_LIMIT recorded timestamps are less than RATE_WINDOW old.
C18_DiscardsWindowOldAndOlder ==
    [][hist'.started = hist.started + 1 =>
          LET ip    == last_admit'.client_ip
              win   == rate_store[ip]
              fresh == {k \in 1..Len(win) : win[k] > now - RATE_WINDOW}
              kept  == SelectSeq(win, LAMBDA x : x > now - RATE_WINDOW)
          IN  /\ \A t \in Stamps(win) :
                    (t <= now - RATE_WINDOW) <=> (t \notin Stamps(rate_store'[ip]))
              /\ last_admit'.ok <=> Cardinality(fresh) < RATE_LIMIT
              /\ rate_store'[ip] = IF last_admit'.ok THEN Append(kept, now) ELSE kept]_vars

\* With RATE_LIMIT = 1: a client admitted, then admitted again exactly
\* RATE_WINDOW later, the first timestamp gone from its window.
C18_Witness ==
    /\ RATE_LIMIT = 1
    /\ last_admit.seen /\ last_admit.ok
    /\ last_admit.prev_seen /\ last_admit.prev_ok
    /\ last_admit.t - last_admit.prev_t = RATE_WINDOW
    /\ last_admit.win_before = 0
    /\ \E c \in Clients :
          /\ c = last_admit.client_ip
          /\ rate_store[c] = <<last_admit.t>>
          /\ cg[c].last_t = last_admit.t

\* C19: a rejected admission records nothing: every client's window is the
\* list of its admission times less than RATE_WINDOW before its latest
\* check, and a check is rejected only while RATE_LIMIT such admissions
\* exist, however many requests were rejected in between.
C19_RejectionsNotRecorded ==
    \A c \in Clients :
        /\ rate_store[c] = cg[c].admitted
        /\ (cg[c].n > 0 /\ ~cg[c].last_ok) => Len(cg[c].admitted) = RATE_LIMIT
        /\ (cg[c].n > 0 /\ cg[c].last_ok) =>
              /\ Len(cg[c].admitted) >= 1
              /\ cg[c].admitted[Len(cg[c].admitted)] = cg[c].last_t

\* A client rejected and, less than RATE_WINDOW after that rejection,
\* admitted: the admission that exhausted it has aged out meanwhile.
C19_Witness ==
    /\ last_admit.seen /\ last_admit.ok
    /\ last_admit.prev_seen /\ ~last_admit.prev_ok
    /\ last_admit.t - last_admit.prev_t < RATE_WINDOW
    /\ stats.rate_limited >= 1
    /\ \E c \in Clients :
          c = last_admit.client_ip /\ rate_store[c] = <<last_admit.t>>

\* C20: in every reachable state each client's window holds at most
\* RATE_LIMIT timestamps, and at most RATE_LIMIT requests of a client were
\* admitted within any interval shorter than RATE_WINDOW: the admissions of
\* such an interval are all among those less than RATE_WINDOW before the
\* last of them, which cg[c].admitted lists when that one is admitted.
C20_WindowAndAdmissionsBounded ==
    \A c \in Clients :
        /\ Len(rate_store[c]) <= RATE_LIMIT
        /\ Len(cg[c].admitted) <= RATE_LIMIT
        /\ \A i, j \in 1..Len(cg[c].admitted) :
              i <= j =>
                 /\ cg[c].admitted[i] <= cg[c].admitted[j]
                 /\ cg[c].admitted[j] - cg[c].admitted[i] < RATE_WINDOW

\* With RATE_LIMIT = 2: a client admitted at two different times of one
\* window and then rejected, its window full.
C20_Witness ==
    \E c \in Clients :
        /\ RATE_LIMIT = 2
        /\ Len(rate_store[c]) = 2
        /\ Len(cg[c].admitted) = 2
        /\ cg[c].admitted[1] < cg[c].admitted[2]
        /\ cg[c].n = 3 /\ ~cg[c].last_ok

\* C21: the rate limiter is consulted before the service registry and the
\* registry before the network call: a request whose admission is refused is
\* answered 429 whatever its service name, without any resolution; a 404 is
\* given to admitted requests only; a handler goes on to its upstream call
\* only for a request admitted and resolved to a configured service.
C21_LimiterThenRegistryThenNetwork ==
    /\ (last_admit.seen /\ ~last_admit.ok) =>
          last_admit.answered = 429 /\ last_admit.spawned = 0
    /\ last_admit.answered = 404 => last_admit.ok /\ last_admit.spawned = 0
    /\ last_admit.spawned = 1 =>
          /\ last_admit.ok
          /\ last_admit.service \in DOMAIN SERVICE_MAP
          /\ last_admit.answered = 0
    /\ last_done.outcome = "rate_limited" =>
          last_done.available = {} /\ last_done.upstream_calls = 0
    /\ last_done.outcome = "not_found" => last_done.upstream_calls = 0
    /\ last_done.upstream_calls >= 1 => last_done.service \in DOMAIN SERVICE_MAP
    /\ \A i \in 1..Len(handlers) :
          handlers[i].calls >= 1 => handlers[i].service \in DOMAIN SERVICE_MAP

\* An exhausted client asks for an unknown service and is answered 429.
C21_Witness ==
    /\ last_admit.seen /\ ~last_admit.ok
    /\ last_admit.service \notin DOMAIN SERVICE_MAP
    /\ last_admit.answered = 429
    /\ last_done.outcome = "rate_limited" /\ last_done.service = last_admit.service
    /\ last_done.logged = <<429>>

\* C22: every admitted request consumes one unit of its client's quota,
\* whatever happens to it afterwards.  The admission leaves its timestamp in
\* the window also when the request is answered 404; no step that answers a
\* request (404, 502, 500 or the upstream's status) changes any window; so
\* RATE_LIMIT admitted requests within a window, whatever their outcomes,
\* make the client's next request of that window a 429.
C22_AdmissionConsumesQuota ==
    /\ [](/\ (last_admit.seen /\ last_admit.ok) =>
               LET w == rate_store[last_admit.client_ip]
               IN  /\ Len(w) = last_admit.win_before + 1
                   /\ w[Len(w)] = last_admit.t
          /\ \A c \in Clients :
               (InOneWindow(c) /\ cg[c].n = RATE_LIMIT + 1) =>
                   /\ ~cg[c].last_ok
                   /\ Len(rate_store[c]) = RATE_LIMIT)
    /\ [][hist'.started = hist.started => rate_store' = rate_store]_vars

\* With RATE_LIMIT = 2: one client's requests answered 404 and 502 or 500,
\* none proxied, and its third request of the window answered 429.
C22_Witness ==
    /\ RATE_LIMIT = 2
    /\ stats.total_requests = 3
    /\ stats.successful_proxies = 0
    /\ stats.failed_proxies = 1
    /\ stats.rate_limited = 1
    /\ Len(handlers) = 0
    /\ last_done.outcome = "rate_limited"
    /\ \E c \in Clients :
          /\ InOneWindow(c) /\ cg[c].n = 3 /\ ~cg[c].last_ok
          /\ Len(rate_store[c]) = 2

\* C23: rate limiting is per client.  An admission check of one client
\* leaves the window of every other client unchanged, and its answer depends
\* on its own window only: a client is rejected only while RATE_LIMIT of its
\* own admissions are less than RATE_WINDOW old, and is admitted otherwise,
\* whatever the other clients have used up.
C23_PerClientWindows ==
    /\ [](\A b \in Clients :
            /\ rate_store[b] = cg[b].admitted
            /\ (cg[b].n > 0 /\ ~cg[b].last_ok) => Len(cg[b].admitted) = RATE_LIMIT
            /\ (InOneWindow(b) /\ cg[b].n <= RATE_LIMIT) => cg[b].last_ok)
    /\ [][hist'.started = hist.started + 1 =>
            \A b \in Clients \ {last_admit'.client_ip} :
                rate_store'[b] = rate_store[b] /\ cg'[b] = cg[b]]_vars

\* One client has just been rejected, its window full; at the same clock
\* reading another client sends its first request and is admitted.
C23_Witness ==
    \E a, b \in Clients :
        /\ a # b
        /\ cg[a].n > 0 /\ ~cg[a].last_ok
        /\ Len(rate_store[a]) = RATE_LIMIT
        /\ cg[a].last_t = now
        /\ last_admit.client_ip = b /\ last_admit.ok /\ last_admit.t = now
        /\ last_admit.win_before = 0
        /\ rate_store[b] = <<now>>
        /\ stats.rate_limited = 1

\* The request of rank r is suspended at an await.
InFlight(r) == \E i \in 1..Len(handlers) : handlers[i].rid = r

====
